---- MODULE Spec2Model ----
(***************************************************************************)
(* iCloud Email Service (src/index.js): an HTTP bridge that turns each     *)
(* request into a short-lived IMAP session (connect, open box, search,     *)
(* fetch, parse, respond) or an outbound send.                             *)
(*                                                                         *)
(* src/index.js holds two versions of the service one after the other:     *)
(* lines 1-577 send over SMTP with the caller's credentials, lines         *)
(* 579-1164 send through Mailgun.  The mailbox handlers of the two are     *)
(* the same text; `copy` says which version the process runs.              *)
(*                                                                         *)
(* One request is in flight at a time.  Every `await` of a handler is a    *)
(* step boundary: the handler's code up to its next await is one action,   *)
(* and the mail server's answer (success or error, and its payload) is     *)
(* the action's input.                                                     *)
(***************************************************************************)
EXTENDS Integers, Sequences, FiniteSets, TLC

\* ------------------------------------------------------------------ bounds
MaxUid == 3      \* UIDs of a folder are drawn from 1..MaxUid
MaxLimit == 3    \* explicit `limit` parameters are drawn from MinLimit..MaxLimit
MaxDate == 2     \* parsed dates are drawn from 1..MaxDate (NoDate: none)
MaxDepth == 2    \* generated folder trees have at most MaxDepth levels
MaxWidth == 2    \* and at most MaxWidth folders in one level
MaxRequests == 2 \* requests in flight together
MaxPairUid == 2  \* UIDs of the folder of two compared requests
MaxChunks == 2   \* body chunks of one message
MaxStreamed == 2 \* messages of a folder whose fetch is followed by event
MaxBatch == 7    \* messages of a folder whose whole batch is sorted

MinLimit == 0 - 1
NoDate == 0
NoBody == 0 - 1
PreviewLen == 200
ShortLen == 3
LongLen == PreviewLen + 50

\* `limit = 20` / `limit = 50`: the destructuring defaults of the handlers
DefaultLimitEmails == 20
DefaultLimitSearch == 50

Min(a, b) == IF a < b THEN a ELSE b
Max(a, b) == IF a > b THEN a ELSE b

\* The elements of a set of integers as an ascending sequence.
RECURSIVE Ascending(_)
Ascending(S) ==
  IF S = {} THEN <<>>
  ELSE LET m == CHOOSE x \in S : \A y \in S : x <= y
       IN  <<m>> \o Ascending(S \ {m})

Range(s) == {s[i] : i \in 1..Len(s)}

Reverse(s) == [i \in 1..Len(s) |-> s[Len(s) + 1 - i]]

\* ------------------------------------------------------- Array.prototype.slice
\* s.slice(start): a negative start counts from the end, a start past the
\* end gives the empty array; -0 is 0, so slice(-0) is the whole array.
Slice(s, start) ==
  LET len == Len(s)
      k   == IF start < 0 THEN Max(len + start, 0) ELSE Min(start, len)
  IN  SubSeq(s, k + 1, len)

\* uids.slice(-parseInt(limit))
SliceLast(s, limit) == Slice(s, 0 - limit)

\* ------------------------------------------------------- recency fallback
\* const startSeq = Math.max(1, totalMessages - parseInt(limit) + 1);
\* Array.from({length: Math.min(parseInt(limit), totalMessages)},
\*            (_, i) => startSeq + i)
\* A negative length is an empty array.
FallbackOffByOne(totalMessages, limit) ==
  LET startSeq == Max(1, totalMessages - limit)
      length   == Max(0, Min(limit, totalMessages))
  IN  [i \in 1..length |-> startSeq + (i - 1)]
Fallback(totalMessages, limit) ==
  LET startSeq == Max(1, totalMessages - limit + 1)
      length   == Max(0, Min(limit, totalMessages))
  IN  [i \in 1..length |-> startSeq + (i - 1)]

\* ------------------------------------------------------- emails.sort(...)
\* (a, b) => new Date(b.date) - new Date(a.date): a missing date makes an
\* Invalid Date, the difference is NaN, and the sort reads NaN as +0.
Compare(a, b) ==
  IF a.date = NoDate \/ b.date = NoDate THEN 0 ELSE b.date - a.date

\* Array.prototype.sort as the engine runs it on an array shorter than 64
\* (V8's TimSort): the leading run is counted, reversed when strictly
\* descending, and the rest is placed by binary insertion.
RECURSIVE CountRun(_, _, _)
CountRun(s, isDescending, idx) ==
  IF idx > Len(s) THEN idx - 1
  ELSE LET order == Compare(s[idx], s[idx - 1])
       IN  IF (isDescending /\ order >= 0) \/ (~isDescending /\ order < 0)
           THEN idx - 1
           ELSE CountRun(s, isDescending, idx + 1)

RECURSIVE BinarySearch(_, _, _, _)
BinarySearch(s, pivot, left, right) ==
  IF left >= right THEN left
  ELSE LET mid == left + ((right - left) \div 2)
       IN  IF Compare(pivot, s[mid]) < 0
           THEN BinarySearch(s, pivot, left, mid)
           ELSE BinarySearch(s, pivot, mid + 1, right)

RECURSIVE BinaryInsertionSort(_, _)
BinaryInsertionSort(s, start) ==
  IF start > Len(s) THEN s
  ELSE LET pivot == s[start]
           left  == BinarySearch(s, pivot, 1, start)
           moved == SubSeq(s, 1, left - 1) \o <<pivot>>
                    \o SubSeq(s, left, start - 1)
                    \o SubSeq(s, start + 1, Len(s))
       IN  BinaryInsertionSort(moved, start + 1)

SortByDate(s) ==
  IF Len(s) < 2 THEN s
  ELSE LET isDescending == Compare(s[2], s[1]) < 0
           run  == CountRun(s, isDescending, 3)
           made == IF isDescending
                   THEN Reverse(SubSeq(s, 1, run)) \o SubSeq(s, run + 1, Len(s))
                   ELSE s
       IN  BinaryInsertionSort(made, run + 1)

\* ------------------------------------------------------- flattenMailboxes
Node(name, delimiter, children) ==
  [name |-> name, delimiter |-> delimiter, children |-> children]

\* A flattening that emits a node's later siblings before its children.
RECURSIVE flattenSiblingsFirst(_, _)
flattenSiblingsFirst(boxes, prefix) ==
  IF boxes = <<>> THEN <<>>
  ELSE LET box      == Head(boxes)
           fullPath == IF prefix # <<>>
                       THEN prefix \o <<box.delimiter, box.name>>
                       ELSE <<box.name>>
       IN  <<[name |-> box.name, path |-> fullPath,
              delimiter |-> box.delimiter,
              hasChildren |-> Len(box.children) > 0]>>
           \o flattenSiblingsFirst(Tail(boxes), prefix)
           \o flattenSiblingsFirst(box.children, fullPath)

\* boxes is the object's entries in Object.entries order, a sequence of
\* nodes; a path is the sequence of the tokens concatenated into it. Folder
\* names are not empty, so a path is empty exactly when it is the top-level
\* prefix ''.
RECURSIVE flattenMailboxes(_, _)
flattenMailboxes(boxes, prefix) ==
  IF boxes = <<>> THEN <<>>
  ELSE LET box      == Head(boxes)
           fullPath == IF prefix # <<>>
                       THEN prefix \o <<box.delimiter, box.name>>
                       ELSE <<box.name>>
       IN  <<[name |-> box.name, path |-> fullPath,
              delimiter |-> box.delimiter,
              hasChildren |-> Len(box.children) > 0]>>
           \o flattenMailboxes(box.children, fullPath)
           \o flattenMailboxes(Tail(boxes), prefix)

FolderNames == {"INBOX", "Work"}
Delimiters == {"/", "."}

\* The folder trees of depth <= depth with at most MaxWidth folders in a
\* level, sibling names distinct (they are the keys of one object), one
\* hierarchy delimiter through the tree.
RECURSIVE Forests(_, _)
Forests(depth, delimiter) ==
  IF depth = 0 THEN {<<>>}
  ELSE LET sub   == Forests(depth - 1, delimiter)
           nodes == {Node(n, delimiter, c) : n \in FolderNames, c \in sub}
       IN  {<<>>} \cup
           UNION {{s \in [1..w -> nodes] :
                     \A i, j \in 1..w : i # j => s[i].name # s[j].name} :
                  w \in 1..MaxWidth}

\* Three folder trees: none, two folders, folders three levels deep.
SampleTrees ==
  { <<>>,
    <<Node("INBOX", "/", <<>>), Node("Sent", "/", <<>>)>>,
    <<Node("INBOX", "/", <<Node("Work", "/", <<Node("Q1", "/", <<>>)>>),
                           Node("Home", "/", <<>>)>>),
      Node("Archive", ".", <<>>)>> }

\* Folder trees the server may answer getBoxes with.
Trees == UNION {Forests(MaxDepth, d) : d \in Delimiters} \cup SampleTrees

\* ------------------------------------------------------------------ state
VARIABLES
  copy,        \* 1: the SMTP version (lines 1-577), 2: the Mailgun version
  configured,  \* MAILGUN_API_KEY and MAILGUN_DOMAIN are set in the environment
  transport,   \* what the submission in flight goes through: none, smtp,
               \* mailgun
  pc,          \* where the request in flight waits: idle, connect, getBoxes,
               \* openBox, search, fetch, parse, send, done
  req,         \* the request's parameters as the handler destructured them
  filters,     \* the filter parameters supplied, until the search has answered
  imapState,   \* the request's Imap object: none, connecting, ready, ended
  wasReady,    \* the session's 'ready' event fired: it was opened
  endCalls,    \* calls of imap.end() on the request's session
  folder,      \* the UIDs of the opened folder, in sequence order ascending
  boxTotal,    \* box.messages.total
  searchArg,   \* criteria of the imap.search call in flight
  nSearch,     \* imap.search calls issued
  searched,    \* the search answered with a result
  uids,        \* the search result
  selected,    \* recentUids / limitedUids
  fetchArg,    \* identifiers of the last imap.fetch call
  nFetch,      \* imap.fetch calls issued
  fetched,     \* the fetch answered with messages
  rawMessages, \* the fetched messages (their UIDs), in arrival order
  emails,      \* the normalized messages so far; sorted once the loop is over
  nFail,       \* messages whose parse threw
  netCalls,    \* outbound submissions started (sendMail / sendViaMailgun)
  responses,   \* the HTTP responses sent for the request
  mailboxes,   \* the flattened folder list
  tree,        \* the folder tree getBoxes answered with
  parsedLog,   \* what simpleParser gave for rawMessages[1], [2], ... so far
  password,    \* the password a request that has one comes with
  prev,        \* two requests compared: the run of the first of them
  rqAt,        \* requests in flight together: where each handler waits
  rqUser,      \* ... the username each came with ("": none)
  rqImap,      \* ... each handler's `imap`: the Imap object it holds (0: none)
  rqEmails,    \* ... each handler's `emails`: whose mailbox each message is of
  rqStatus,    \* ... the status each was answered with (0: not yet)
  imapObjects, \* the Imap objects alive in the process
  msgs,        \* imapFetch: per message of the fetch, what the server sent
               \* and the `buffer` and `attributes` of its 'message' callback
  messages,    \* imapFetch: the `messages` array
  promise,     \* imapFetch: the promise: pending, resolved, rejected
  fetchEvents, \* imapFetch: the fetch-level events fired (error, end), each
               \* with the number of messages that had ended before it
  settles      \* imapFetch: times the awaiting handler was resumed

\* What is fixed when the process starts.
process == <<copy, configured>>

\* The one request of the sequential specifications.
single == <<copy, configured, transport, pc, req, filters, imapState,
            wasReady, endCalls, folder, boxTotal, searchArg, nSearch,
            searched, uids, selected, fetchArg, nFetch, fetched, rawMessages,
            emails, nFail, netCalls, responses, mailboxes, tree, parsedLog>>

\* The comparison of two requests.
pair == <<password, prev>>

\* The requests in flight together.
conc == <<rqAt, rqUser, rqImap, rqEmails, rqStatus, imapObjects>>

\* The events of one imapFetch call.
stream == <<msgs, messages, promise, fetchEvents, settles>>

vars == <<single, pair, conc, stream>>

NoTotal == 0 - 1

Methods == {"list_mailboxes", "get_emails", "search_emails", "send_email",
            "other"}

FilterNames == <<"query", "from", "to", "subject", "since", "before">>

Request(endpoint, method, hasParams, hasUser, hasPass, limit, uid, to, subj) ==
  [endpoint |-> endpoint, method |-> method, hasParams |-> hasParams,
   hasUser |-> hasUser, hasPass |-> hasPass, limit |-> limit, uid |-> uid,
   hasTo |-> to, hasSubject |-> subj]

NoRequest == Request("none", "", FALSE, FALSE, FALSE, 0, 0, FALSE, FALSE)

\* The handler that serves the request.
Kind == IF req.endpoint = "mcp" THEN req.method ELSE req.endpoint
IsMcp == req.endpoint = "mcp"
Recency == Kind \in {"emails", "get_emails"}
CriteriaIntent == Kind \in {"search", "search_emails"}

\* Two passwords a caller may have.
Passwords == {"password one", "password two"}

\* No request has been kept for comparison.
NoPrev == [twin |-> "none"]

\* The requests that may be in flight together, and the Imap objects there
\* can be: one per request at most.
Requests == 1..MaxRequests
ImapIds == 1..MaxRequests
Users == {"alice", "bob"}

\* A body chunk: the message it is of and its place in that message's body.
Chunk(m, part) == [of |-> m, part |-> part]

\* The place of an Imap object that does not exist.
NoImap == [user |-> "", state |-> "free", callers |-> {}]

\* A message of the folder the fetch has not come to: nothing sent, and no
\* 'message' callback has run for it.
NoMessage == [at |-> "none", sent |-> <<>>, buffer |-> <<>>, attributes |-> 0]

Init ==
  /\ password = "password one"
  /\ prev = NoPrev
  /\ rqAt = [r \in Requests |-> "idle"]
  /\ rqUser = [r \in Requests |-> ""]
  /\ rqImap = [r \in Requests |-> 0]
  /\ rqEmails = [r \in Requests |-> <<>>]
  /\ rqStatus = [r \in Requests |-> 0]
  /\ imapObjects = [i \in ImapIds |-> NoImap]
  /\ copy \in {1, 2}
  /\ configured \in BOOLEAN
  /\ transport = "none"
  /\ pc = "idle"
  /\ req = NoRequest
  /\ filters = {}
  /\ imapState = "none"
  /\ wasReady = FALSE
  /\ endCalls = 0
  /\ folder = {}
  /\ boxTotal = 0
  /\ searchArg = <<>>
  /\ nSearch = 0
  /\ searched = FALSE
  /\ uids = <<>>
  /\ selected = <<>>
  /\ fetchArg = <<>>
  /\ nFetch = 0
  /\ fetched = FALSE
  /\ rawMessages = <<>>
  /\ emails = <<>>
  /\ nFail = 0
  /\ netCalls = 0
  /\ responses = <<>>
  /\ mailboxes = <<>>
  /\ tree = <<>>
  /\ parsedLog = <<>>
  /\ msgs = [m \in 1..MaxUid |-> NoMessage]
  /\ messages = <<>>
  /\ promise = "pending"
  /\ fetchEvents = {}
  /\ settles = 0

\* ------------------------------------------------------- handler fragments
Response(status, error, ems, tot) ==
  [status |-> status, error |-> error, emails |-> ems, total |-> tot]

\* res.status(status).json(...) / res.json(...)
Respond(status, error, ems, tot) ==
  /\ responses' = Append(responses, Response(status, error, ems, tot))
  /\ pc' = "done"

\* imap.end(), n times in the step
End(n) ==
  /\ endCalls' = endCalls + n
  /\ imapState' = "ended"

\* A catch block that answers with the password the request came with.
CatchEchoPassword(error) ==
  /\ IF IsMcp THEN UNCHANGED <<endCalls, imapState>> ELSE End(1)
  /\ Respond(500, password, <<>>, NoTotal)

\* A catch block that swallows the failure and answers an empty success.
CatchSwallow(error) ==
  /\ IF IsMcp THEN UNCHANGED <<endCalls, imapState>> ELSE End(1)
  /\ Respond(200, "", <<>>, 0)

\* The catch block of the handler: the GET handlers end the session and
\* answer 500; /mcp's catch has no session in scope and only answers 500.
Catch(error) ==
  /\ IF IsMcp THEN UNCHANGED <<endCalls, imapState>> ELSE End(1)
  /\ Respond(500, error, <<>>, NoTotal)

\* A new request arrives; no other is in flight.
Begin(r, f) ==
  /\ pc = "idle"
  /\ req' = r
  /\ filters' = f
  /\ wasReady' = FALSE
  /\ endCalls' = 0
  /\ folder' = {}
  /\ boxTotal' = 0
  /\ searchArg' = <<>>
  /\ nSearch' = 0
  /\ searched' = FALSE
  /\ uids' = <<>>
  /\ selected' = <<>>
  /\ fetchArg' = <<>>
  /\ nFetch' = 0
  /\ fetched' = FALSE
  /\ rawMessages' = <<>>
  /\ emails' = <<>>
  /\ nFail' = 0
  /\ mailboxes' = <<>>
  /\ tree' = <<>>
  /\ parsedLog' = <<>>
  /\ UNCHANGED <<process, pair, conc, stream>>

\* return res.status(status).json({ error }) before anything was created
Reject(status, error) ==
  /\ imapState' = "none"
  /\ netCalls' = 0
  /\ transport' = "none"
  /\ responses' = <<Response(status, error, <<>>, NoTotal)>>
  /\ pc' = "done"

\* createImapConnection(username, password); await imapConnect(imap)
Connect ==
  /\ imapState' = "connecting"
  /\ netCalls' = 0
  /\ transport' = "none"
  /\ responses' = <<>>
  /\ pc' = "connect"

\* the credential check of the GET handlers
CheckCredentials(r) ==
  IF ~r.hasUser \/ ~r.hasPass
  THEN Reject(400, "Missing username or password")
  ELSE Connect

Limits(default) == (MinLimit..MaxLimit) \cup {default}

\* ------------------------------------------------------- request arrival
\* app.get('/mailboxes')
GetMailboxes ==
  /\ pc = "idle"
  /\ \E hasUser, hasPass \in BOOLEAN :
    LET r == Request("mailboxes", "", TRUE, hasUser, hasPass, 0, 0, FALSE,
                     FALSE)
    IN  /\ Begin(r, {})
        /\ CheckCredentials(r)

\* app.get('/emails')
GetEmails ==
  /\ pc = "idle"
  /\ \E hasUser, hasPass \in BOOLEAN, limit \in Limits(DefaultLimitEmails) :
    LET r == Request("emails", "", TRUE, hasUser, hasPass,
                     IF hasUser /\ hasPass THEN limit ELSE DefaultLimitEmails,
                     0, FALSE, FALSE)
    IN  /\ Begin(r, {})
        /\ CheckCredentials(r)

\* app.get('/email/:uid')
GetEmail ==
  /\ pc = "idle"
  /\ \E hasUser, hasPass \in BOOLEAN, uid \in 1..MaxUid :
    LET r == Request("email", "", TRUE, hasUser, hasPass, 0,
                     IF hasUser /\ hasPass THEN uid ELSE 1, FALSE, FALSE)
    IN  /\ Begin(r, {})
        /\ CheckCredentials(r)

\* app.get('/search')
GetSearch ==
  /\ pc = "idle"
  /\ \E hasUser, hasPass \in BOOLEAN, limit \in Limits(DefaultLimitSearch),
     f \in SUBSET Range(FilterNames) :
    LET ok == hasUser /\ hasPass
        r  == Request("search", "", TRUE, hasUser, hasPass,
                      IF ok THEN limit ELSE DefaultLimitSearch, 0, FALSE,
                      FALSE)
    IN  /\ Begin(r, IF ok THEN f ELSE {})
        /\ CheckCredentials(r)

\* Version 1 hands the message to nodemailer's sendMail over SMTP with the
\* caller's credentials; version 2 hands it to sendViaMailgun.  Neither
\* looks at whether MAILGUN_API_KEY / MAILGUN_DOMAIN are set.
Transport == IF copy = 1 THEN "smtp" ELSE "mailgun"

\* transporter.sendMail(...) / sendViaMailgun(...): the submission starts
Submit ==
  /\ imapState' = "none"
  /\ netCalls' = 1
  /\ transport' = Transport
  /\ responses' = <<>>
  /\ pc' = "send"

\* app.post('/send') of version 1 (SMTP): the credentials are checked, then
\* the required fields, then the message is handed to sendMail.
SendSmtp(r) ==
  IF ~r.hasUser \/ ~r.hasPass
  THEN Reject(400, "Missing username or password")
  ELSE IF ~r.hasTo \/ ~r.hasSubject
  THEN Reject(400, "Missing required fields: to, subject")
  ELSE Submit

PostSendSmtp ==
  /\ pc = "idle"
  /\ copy = 1
  /\ \E hasUser, hasPass, hasTo, hasSubject \in BOOLEAN :
    LET r == Request("send", "", TRUE, hasUser, hasPass, 0, 0, hasTo,
                     hasSubject)
    IN  /\ Begin(r, {})
        /\ SendSmtp(r)

\* app.post('/send') of version 2 (Mailgun): only the required fields are
\* checked, then the message is handed to sendViaMailgun.
SendMailgun(r) ==
  IF ~r.hasTo \/ ~r.hasSubject
  THEN Reject(400, "Missing required fields: to, subject")
  ELSE Submit

PostSendMailgun ==
  /\ pc = "idle"
  /\ copy = 2
  /\ \E hasUser, hasPass, hasTo, hasSubject \in BOOLEAN :
    LET r == Request("send", "", TRUE, hasUser, hasPass, 0, 0, hasTo,
                     hasSubject)
    IN  /\ Begin(r, {})
        /\ SendMailgun(r)

\* switch (method) in app.post('/mcp')
McpSwitch(r) ==
  CASE r.method = "list_mailboxes" -> Connect
    [] r.method \in {"get_emails", "search_emails"} ->
         IF r.hasParams THEN Connect
         ELSE Reject(500, "Cannot destructure params")
    [] r.method = "send_email" ->
         IF r.hasParams THEN Submit
         ELSE Reject(500, "Cannot destructure params")
    [] OTHER -> Reject(400, "Unknown method")

\* app.post('/mcp'): the switch on `method`, up to the first await.  The
\* credentials are read from `params || {}` and never checked; get_emails,
\* search_emails and send_email destructure `params` itself, which throws
\* when the body has none.
PostMcp ==
  /\ pc = "idle"
  /\ \E method \in Methods, hasParams, hasUser, hasPass, hasTo,
     hasSubject \in BOOLEAN, limit \in Limits(DefaultLimitSearch),
     f \in SUBSET Range(FilterNames) :
    LET dflt == IF method = "get_emails" THEN DefaultLimitEmails
                ELSE DefaultLimitSearch
        listing == method \in {"get_emails", "search_emails"}
        sending == method = "send_email"
        r == Request("mcp", method, hasParams,
                     hasParams /\ hasUser, hasParams /\ hasPass,
                     IF hasParams /\ listing /\ limit # DefaultLimitSearch
                     THEN limit ELSE IF listing THEN dflt ELSE 0,
                     0,
                     hasParams /\ sending /\ hasTo,
                     hasParams /\ sending /\ hasSubject)
    IN  /\ Begin(r, IF hasParams /\ method = "search_emails" THEN f ELSE {})
        /\ McpSwitch(r)

\* ------------------------------------------------------- the session's steps
\* What a step leaves alone.
sessionData == <<folder, boxTotal, searchArg, nSearch, searched, uids,
                 selected, fetchArg, nFetch, fetched, rawMessages, emails,
                 nFail, mailboxes, tree, parsedLog,
                 filters>>

\* imapConnect resolves ('ready'): the handler goes on to its first
\* operation, getBoxes or openBox.  The server opens a session only for
\* credentials that are there.
ConnectReady ==
  /\ pc = "connect"
  /\ req.hasUser /\ req.hasPass
  /\ wasReady' = TRUE
  /\ imapState' = "ready"
  /\ pc' = IF Kind \in {"mailboxes", "list_mailboxes"} THEN "getBoxes"
           ELSE "openBox"
  /\ UNCHANGED <<process, pair, conc, stream, transport, req, endCalls,
                 netCalls, responses, sessionData>>

\* imapConnect rejects ('error')
ConnectError ==
  /\ pc = "connect"
  /\ Catch("connect failed")
  /\ UNCHANGED <<process, pair, conc, stream, transport, req, wasReady,
                 netCalls, sessionData>>

\* imapGetBoxes resolves: flatten, end the session, answer
GetBoxesReply ==
  /\ pc = "getBoxes"
  /\ \E boxes \in Trees :
       /\ tree' = boxes
       /\ mailboxes' = flattenMailboxes(boxes, <<>>)
  /\ End(1)
  /\ Respond(200, "", <<>>, NoTotal)
  /\ UNCHANGED <<process, pair, conc, stream, transport, req, wasReady,
                 netCalls, folder, boxTotal, searchArg, nSearch, searched,
                 uids, selected, fetchArg, nFetch, fetched, rawMessages,
                 emails, nFail, parsedLog, filters>>

GetBoxesError ==
  /\ pc = "getBoxes"
  /\ Catch("getBoxes failed")
  /\ UNCHANGED <<process, pair, conc, stream, transport, req, wasReady,
                 netCalls, sessionData>>

\* The criteria list of GET /search: one criterion for each filter given,
\* 'ALL' when there is none.
Criteria(f) ==
  LET named == SelectSeq(FilterNames, LAMBDA n : n \in f)
      tag(n) == CASE n = "query"   -> "TEXT"
                  [] n = "from"    -> "FROM"
                  [] n = "to"      -> "TO"
                  [] n = "subject" -> "SUBJECT"
                  [] n = "since"   -> "SINCE"
                  [] n = "before"  -> "BEFORE"
      list == [i \in 1..Len(named) |-> tag(named[i])]
  IN  IF list = <<>> THEN <<"ALL">> ELSE list

\* /mcp search_emails destructures query, from and subject only.
McpCriteria(f) == Criteria(f \cap {"query", "from", "subject"})

\* A search that fans out: the fetch is issued along with it, before the
\* search has answered.
IssueSearchFanOut(criteria) ==
  /\ searchArg' = criteria
  /\ nSearch' = nSearch + 1
  /\ fetchArg' = <<1>>
  /\ nFetch' = nFetch + 1
  /\ pc' = "search"
  /\ UNCHANGED <<endCalls, imapState, responses>>

\* await imapSearch(imap, criteria)
IssueSearch(criteria) ==
  /\ searchArg' = criteria
  /\ nSearch' = nSearch + 1
  /\ pc' = "search"
  /\ UNCHANGED <<endCalls, imapState, responses, fetchArg, nFetch>>

\* await imapFetch(imap, ids, ...)
IssueFetch(ids) ==
  /\ fetchArg' = ids
  /\ nFetch' = nFetch + 1
  /\ pc' = "fetch"
  /\ UNCHANGED <<endCalls, imapState, responses>>

\* The handler resumes from `await imapOpenBox(...)` with the box of the
\* folder whose messages have the UIDs fld.
OpenBox(fld) ==
  /\ folder' = fld
  /\ boxTotal' = Cardinality(fld)
  /\ CASE Kind = "email" ->
            /\ IssueFetch(<<req.uid>>)
            /\ UNCHANGED <<searchArg, nSearch>>
       [] Recency ->
            IF Cardinality(fld) = 0
            THEN /\ End(1)
                 /\ Respond(200, "", <<>>, 0)
                 /\ UNCHANGED <<searchArg, nSearch, fetchArg, nFetch>>
            ELSE IssueSearch(<<"SINCE">>)
       [] Kind = "search" -> IssueSearch(Criteria(filters))
       [] Kind = "search_emails" -> IssueSearch(McpCriteria(filters))
  /\ UNCHANGED <<process, pair, conc, stream, transport, req, wasReady,
                 netCalls, searched, uids, selected, fetched, rawMessages,
                 emails, nFail, mailboxes, tree, parsedLog, filters>>

\* imapOpenBox resolves with the box of a folder.
OpenBoxReply ==
  /\ pc = "openBox"
  /\ \E fld \in SUBSET (1..MaxUid) : OpenBox(fld)

OpenBoxError ==
  /\ pc = "openBox"
  /\ Catch("openBox failed")
  /\ UNCHANGED <<process, pair, conc, stream, transport, req, wasReady,
                 netCalls, sessionData>>

\* recentUids: the last `limit` of the search result, or the fallback range
\* of sequence numbers when that is empty
RecentUids(result, totalMessages, limit) ==
  LET recent == SliceLast(result, limit)
  IN  IF Len(recent) = 0 THEN Fallback(totalMessages, limit) ELSE recent

\* imapSearch resolves with the identifiers that match, ascending; 'ALL'
\* matches every message of the folder.
SearchReply ==
  /\ pc = "search"
  /\ \E found \in SUBSET folder :
       /\ searchArg = <<"ALL">> => found = folder
       /\ uids' = Ascending(found)
       /\ IF Recency
          THEN /\ selected' = RecentUids(uids', boxTotal, req.limit)
               /\ IssueFetch(selected')
          ELSE /\ selected' = SliceLast(uids', req.limit)
               /\ IF Len(selected') = 0
                  THEN /\ End(1)
                       /\ Respond(200, "", <<>>, 0)
                       /\ UNCHANGED <<fetchArg, nFetch>>
                  ELSE IssueFetch(selected')
  /\ searched' = TRUE
  /\ searchArg' = <<>>
  /\ filters' = {}
  /\ UNCHANGED <<process, pair, conc, stream, transport, req, wasReady,
                 netCalls, folder, boxTotal, nSearch, fetched, rawMessages,
                 emails, nFail, mailboxes, tree, parsedLog>>

SearchError ==
  /\ pc = "search"
  /\ Catch("search failed")
  /\ UNCHANGED <<process, pair, conc, stream, transport, req, wasReady,
                 netCalls, sessionData>>

\* ------------------------------------------------------- fetch and parse
\* What simpleParser makes of one raw message: it throws, or it gives a
\* date (or none) and a subject (or none).
\* A body string is the name of the body part it is cut from and its
\* length in characters; length NoBody is undefined (the part is missing).
Str(part, len) == [part |-> IF len > 0 THEN part ELSE "", len |-> len]
Undefined == Str("", NoBody)
EmptyString == Str("", 0)

\* str?.substring(0, n)
Substring(str, n) ==
  IF str.len = NoBody THEN Undefined ELSE Str(str.part, Min(str.len, n))

\* a || b
OrElse(a, b) == IF a.len > 0 THEN a ELSE b

\* The bodies simpleParser gives: text only (short, long), HTML only
\* (short, long), an empty text with HTML, both parts, neither.
Bodies ==
  { [text |-> Str("text", ShortLen), html |-> Undefined],
    [text |-> Str("text", LongLen), html |-> Undefined],
    [text |-> Undefined, html |-> Str("html", ShortLen)],
    [text |-> Undefined, html |-> Str("html", LongLen)],
    [text |-> EmptyString, html |-> Str("html", ShortLen)],
    [text |-> Str("text", ShortLen), html |-> Str("html", LongLen)],
    [text |-> Undefined, html |-> Undefined] }

PlainBody == [text |-> Str("text", ShortLen), html |-> Undefined]

Parsed(date, subject, body) ==
  [ok |-> TRUE, date |-> date, subject |-> subject, text |-> body.text,
   html |-> body.html]

ParseFailure ==
  [ok |-> FALSE, date |-> NoDate, subject |-> "", text |-> Undefined,
   html |-> Undefined]

\* Every date with every subject on a plain body, and every body on one
\* date and subject.
ParseOutcomes ==
  {ParseFailure}
    \cup {Parsed(d, sb, PlainBody) :
            d \in {NoDate} \cup (1..MaxDate), sb \in {"", "Hello"}}
    \cup {Parsed(1, "Hello", b) : b \in Bodies}

\* preview: parsed.text?.substring(0, 200) || parsed.html?.substring(0, 200)
\*          || ''
PreviewTextOrHtml(parsed) ==
  OrElse(OrElse(Substring(parsed.text, PreviewLen),
                Substring(parsed.html, PreviewLen)), EmptyString)

\* preview: parsed.text?.substring(0, 200) || ''
PreviewText(parsed) ==
  OrElse(Substring(parsed.text, PreviewLen), EmptyString)

\* { uid: raw.attributes.uid, date: parsed.date?.toISOString(),
\*   subject: parsed.subject || '(No Subject)', preview: ..., ... }
\* GET /emails previews the text or else the HTML; GET /search and the
\* /mcp methods preview the text only.
Normalize(uid, parsed) ==
  [uid |-> uid, date |-> parsed.date,
   subject |-> IF parsed.subject = "" THEN "(No Subject)" ELSE parsed.subject,
   preview |-> IF Kind = "emails" THEN PreviewTextOrHtml(parsed)
               ELSE PreviewText(parsed)]

\* GET /email/:uid: { uid, date, subject, text: parsed.text || '',
\*                    html: parsed.html || '', ... }
NormalizeEmail(uid, parsed) ==
  [uid |-> uid, date |-> parsed.date,
   subject |-> IF parsed.subject = "" THEN "(No Subject)" ELSE parsed.subject,
   text |-> OrElse(parsed.text, EmptyString),
   html |-> OrElse(parsed.html, EmptyString)]

\* A GET /emails whose success is already sent when the ReferenceError is
\* thrown: the catch block answers a second time.
FinishAnswersTwice(parsedEmails) ==
  LET sorted == SortByDate(parsedEmails)
  IN  /\ emails' = sorted
      /\ CASE Kind = "emails" ->
                /\ End(2)
                /\ responses' =
                     <<Response(200, "", sorted, NoTotal),
                       Response(500, "totalMessages is not defined", <<>>,
                                NoTotal)>>
                /\ pc' = "done"
           [] OTHER ->
                /\ End(1)
                /\ Respond(200, "", sorted, Len(uids))

\* After the parse loop: sort, end the session, answer.  GET /emails names
\* `totalMessages` in its answer, a const of the fallback block that is not
\* in scope there: building the answer throws a ReferenceError, and the
\* catch block ends the session again and answers 500.
Finish(parsedEmails) ==
  LET sorted == SortByDate(parsedEmails)
  IN  /\ emails' = sorted
      /\ CASE Kind = "emails" ->
                /\ End(2)
                /\ Respond(500, "totalMessages is not defined", <<>>, NoTotal)
           [] OTHER ->
                /\ End(1)
                /\ Respond(200, "", sorted, Len(uids))

\* GET /email/:uid after its fetch: 404 when nothing came, else the parse
\* of rawMessages[0]
EmailAfterFetchNoEnd(raw) ==
  IF Len(raw) = 0
  THEN /\ UNCHANGED <<endCalls, imapState>>
       /\ Respond(404, "Email not found", <<>>, NoTotal)
  ELSE /\ pc' = "parse"
       /\ UNCHANGED <<endCalls, imapState, responses>>
EmailAfterFetch(raw) ==
  IF Len(raw) = 0
  THEN /\ End(1)
       /\ Respond(404, "Email not found", <<>>, NoTotal)
  ELSE /\ pc' = "parse"
       /\ UNCHANGED <<endCalls, imapState, responses>>

\* imapFetch resolves with the messages of the folder whose UID is among
\* the identifiers asked for (the handlers fetch by UID), in sequence order.
\* An empty identifier list never resolves: imap.fetch throws on it.
\* The handler resumes from `await imapFetch(...)` with the messages raw.
AfterFetch(raw) ==
  /\ rawMessages' = raw
  /\ fetched' = TRUE
  /\ IF Kind = "email"
     THEN /\ EmailAfterFetch(rawMessages')
          /\ UNCHANGED emails
     ELSE IF Len(rawMessages') = 0
     THEN Finish(<<>>)
     ELSE /\ pc' = "parse"
          /\ UNCHANGED <<endCalls, imapState, responses, emails>>
  /\ UNCHANGED <<process, pair, conc, transport, req, wasReady, netCalls,
                 folder, boxTotal, searchArg, nSearch, searched, uids,
                 selected, fetchArg, nFetch, nFail, mailboxes, tree,
                 parsedLog, filters>>

FetchReply ==
  /\ pc = "fetch"
  /\ fetchArg # <<>>
  /\ AfterFetch(Ascending(Range(fetchArg) \cap folder))
  /\ UNCHANGED stream

\* The handler's `await imapFetch(...)` throws: its catch block runs.
FetchFailed ==
  /\ Catch("fetch failed")
  /\ UNCHANGED <<process, pair, conc, transport, req, wasReady, netCalls,
                 sessionData>>

FetchError ==
  /\ pc = "fetch"
  /\ FetchFailed
  /\ UNCHANGED stream

\* The message the parse loop is at.
Current == rawMessages[Len(emails) + nFail + 1]
IsLast == Len(emails) + nFail + 1 = Len(rawMessages)

\* simpleParser settles for the single message of GET /email/:uid.
ParseEmail ==
  /\ pc = "parse"
  /\ Kind = "email"
  /\ \E parsed \in ParseOutcomes :
       /\ parsedLog' = Append(parsedLog, parsed)
       /\ IF parsed.ok
          THEN /\ emails' = <<NormalizeEmail(req.uid, parsed)>>
               /\ End(1)
               /\ Respond(200, "", emails', NoTotal)
               /\ UNCHANGED nFail
          ELSE /\ nFail' = nFail + 1
               /\ Catch("parse failed")
               /\ UNCHANGED emails
  /\ UNCHANGED <<process, pair, conc, stream, transport, req, wasReady,
                 netCalls, folder, boxTotal, searchArg, nSearch, searched,
                 uids, selected, fetchArg, nFetch, fetched, rawMessages,
                 mailboxes, tree, filters>>

\* simpleParser settles for the current message of a list or search.  The
\* GET handlers catch a parse error per message and go on; the /mcp loops
\* have no try around the parse, so the error reaches the handler's catch.
ParseNext ==
  /\ pc = "parse"
  /\ Kind # "email"
  /\ \E parsed \in ParseOutcomes :
       /\ parsedLog' = Append(parsedLog, parsed)
       /\ IF parsed.ok
          THEN /\ UNCHANGED nFail
               /\ IF IsLast
                  THEN Finish(Append(emails, Normalize(Current, parsed)))
                  ELSE /\ emails' = Append(emails, Normalize(Current, parsed))
                       /\ UNCHANGED <<pc, endCalls, imapState, responses>>
          ELSE /\ nFail' = nFail + 1
               /\ IF IsMcp
                  THEN /\ Catch("parse failed")
                       /\ UNCHANGED emails
                  ELSE IF IsLast
                  THEN Finish(emails)
                  ELSE UNCHANGED <<pc, endCalls, imapState, responses, emails>>
  /\ UNCHANGED <<process, pair, conc, stream, transport, req, wasReady,
                 netCalls, folder, boxTotal, searchArg, nSearch, searched,
                 uids, selected, fetchArg, nFetch, fetched, rawMessages,
                 mailboxes, tree, filters>>

\* ------------------------------------------------------- outbound delivery
\* sendMail / sendViaMailgun resolves
SendReply ==
  /\ pc = "send"
  /\ Respond(200, "", <<>>, NoTotal)
  /\ UNCHANGED <<process, pair, conc, stream, transport, req, wasReady,
                 endCalls, imapState, netCalls, sessionData>>

\* sendMail / sendViaMailgun rejects: the /send and /mcp catch blocks
SendError ==
  /\ pc = "send"
  /\ Respond(500, "send failed", <<>>, NoTotal)
  /\ UNCHANGED <<process, pair, conc, stream, transport, req, wasReady,
                 endCalls, imapState, netCalls, sessionData>>

\* Nothing of a request outlives its handler.
Reset ==
  /\ pc' = "idle"
  /\ req' = NoRequest
  /\ filters' = {}
  /\ imapState' = "none"
  /\ wasReady' = FALSE
  /\ endCalls' = 0
  /\ folder' = {}
  /\ boxTotal' = 0
  /\ searchArg' = <<>>
  /\ nSearch' = 0
  /\ searched' = FALSE
  /\ uids' = <<>>
  /\ selected' = <<>>
  /\ fetchArg' = <<>>
  /\ nFetch' = 0
  /\ fetched' = FALSE
  /\ rawMessages' = <<>>
  /\ emails' = <<>>
  /\ nFail' = 0
  /\ netCalls' = 0
  /\ responses' = <<>>
  /\ mailboxes' = <<>>
  /\ tree' = <<>>
  /\ parsedLog' = <<>>
  /\ transport' = "none"

\* The handler has answered and returns.
Return ==
  /\ pc = "done"
  /\ Reset
  /\ UNCHANGED <<process, pair, conc, stream>>

Next ==
  \/ GetMailboxes \/ GetEmails \/ GetEmail \/ GetSearch
  \/ PostSendSmtp \/ PostSendMailgun
  \/ PostMcp
  \/ ConnectReady \/ ConnectError
  \/ GetBoxesReply \/ GetBoxesError
  \/ OpenBoxReply \/ OpenBoxError
  \/ SearchReply \/ SearchError
  \/ FetchReply \/ FetchError
  \/ ParseEmail \/ ParseNext
  \/ SendReply \/ SendError
  \/ Return

Spec == Init /\ [][Next]_vars

\* ------------------------------------------------- two requests compared
\* The process serves a request, then a second one that is its twin: the
\* same request through /mcp, or the same request with another password.
\* The mail server, the parser and the delivery provider answer the second
\* request's steps as they answered the same steps of the first.

\* The /mcp method that stands for an HTTP endpoint.
McpMethod(endpoint) ==
  CASE endpoint = "mailboxes" -> "list_mailboxes"
    [] endpoint = "emails" -> "get_emails"
    [] endpoint = "search" -> "search_emails"
    [] endpoint = "send" -> "send_email"

\* The twins a request has.
Twins(r) ==
  {t \in {"mcp"} : r.endpoint \in {"mailboxes", "emails", "search", "send"}}
    \cup {t \in {"password"} : r.hasPass}

\* A password other than the given one.
OtherPassword(p) == CHOOSE q \in Passwords : q # p

\* The second request.
TwinRequest ==
  IF prev.twin = "mcp"
  THEN Request("mcp", McpMethod(prev.req.endpoint), TRUE, prev.req.hasUser,
               prev.req.hasPass, prev.req.limit, 0, prev.req.hasTo,
               prev.req.hasSubject)
  ELSE prev.req

\* The route of request r, up to its first await.
Handle(r) ==
  CASE r.endpoint \in {"mailboxes", "emails", "email", "search"} ->
         CheckCredentials(r)
    [] r.endpoint = "send" -> IF copy = 1 THEN SendSmtp(r) ELSE SendMailgun(r)
    [] r.endpoint = "mcp" -> McpSwitch(r)

\* The first request arrives, without search filters.
PairArrive ==
  /\ prev.twin = "none"
  /\ \/ GetMailboxes \/ GetEmails \/ GetEmail \/ GetSearch
     \/ PostSendSmtp \/ PostSendMailgun \/ PostMcp
  /\ filters' = {}

\* The step taken answered with the given error.
FailedWith(error) == responses' # <<>> /\ responses'[1].error = error

\* The step taken by the second request got the answer the first request
\* got to the same step, when it took that step.
Follows ==
  CASE prev.twin = "none" -> TRUE
    [] pc = "connect" -> prev.tried => (wasReady' = prev.wasReady)
    [] pc = "getBoxes" ->
         (prev.wasReady /\ prev.lists)
           => IF prev.answer.error = "getBoxes failed"
              THEN FailedWith("getBoxes failed")
              ELSE tree' = prev.tree /\ ~FailedWith("getBoxes failed")
    [] pc = "openBox" ->
         (prev.wasReady /\ ~prev.lists)
           => IF prev.answer.error = "openBox failed"
              THEN FailedWith("openBox failed")
              ELSE folder' = prev.folder /\ ~FailedWith("openBox failed")
    [] pc = "search" ->
         prev.nSearch = 1
           => /\ searched' = prev.searched
              /\ prev.searched => uids' = prev.uids
    [] pc = "fetch" -> prev.nFetch = 1 => (fetched' = prev.fetched)
    [] pc = "parse" ->
         (Len(parsedLog') <= Len(prev.parsedLog)
            /\ rawMessages = prev.rawMessages)
           => parsedLog'[Len(parsedLog')] = prev.parsedLog[Len(parsedLog')]
    [] pc = "send" ->
         prev.netCalls = 1 => (responses'[1].status = prev.answer.status)

\* What the parser gives in the compared runs: a failure, a message
\* without date and subject, an early HTML-only one, a later text message.
PairOutcomes ==
  { ParseFailure,
    Parsed(NoDate, "", PlainBody),
    Parsed(1, "Hello", [text |-> Undefined, html |-> Str("html", LongLen)]),
    Parsed(MaxDate, "Hello", PlainBody) }

\* The compared runs are on folders of at most MaxPairUid messages and on
\* the sample folder trees.
Within ==
  /\ folder' \subseteq 1..MaxPairUid
  /\ tree' \in SampleTrees
  /\ \A k \in 1..Len(parsedLog') : parsedLog'[k] \in PairOutcomes

\* A step of the request in flight.
PairStep ==
  /\ \/ ConnectReady \/ ConnectError
     \/ GetBoxesReply \/ GetBoxesError
     \/ OpenBoxReply \/ OpenBoxError
     \/ SearchReply \/ SearchError
     \/ FetchReply \/ FetchError
     \/ ParseEmail \/ ParseNext
     \/ SendReply \/ SendError
  /\ Within
  /\ Follows

\* The first request returns and is not compared.
PairReturn ==
  /\ prev.twin = "none"
  /\ Return

\* The first request returns; its run is kept, a twin is to come.
Keep ==
  /\ pc = "done"
  /\ prev.twin = "none"
  /\ \E t \in Twins(req) :
       /\ prev' = [twin |-> t, req |-> req, tried |-> imapState # "none",
                   wasReady |-> wasReady,
                   lists |-> Kind \in {"mailboxes", "list_mailboxes"},
                   tree |-> tree, mailboxes |-> mailboxes, folder |-> folder,
                   nSearch |-> nSearch, searched |-> searched, uids |-> uids,
                   nFetch |-> nFetch, fetched |-> fetched,
                   rawMessages |-> rawMessages, parsedLog |-> parsedLog,
                   netCalls |-> netCalls, answer |-> responses[1],
                   responses |-> responses]
       /\ password' = IF t = "password" THEN OtherPassword(password)
                      ELSE password
  /\ Reset
  /\ UNCHANGED <<process, conc, stream>>

\* The second request arrives.
Twin ==
  /\ pc = "idle"
  /\ prev.twin # "none"
  /\ Begin(TwinRequest, {})
  /\ Handle(TwinRequest)

\* The second request returns; nothing is kept.
Forget ==
  /\ pc = "done"
  /\ prev.twin # "none"
  /\ Reset
  /\ prev' = NoPrev
  /\ password' = "password one"
  /\ UNCHANGED <<process, conc, stream>>

NextPair ==
  \/ PairArrive \/ PairStep \/ PairReturn \/ Keep \/ Twin \/ Forget

SpecPair == Init /\ [][NextPair]_vars

\* ------------------------------------------- requests in flight together
\* Node runs one handler at a time up to its next await; the handlers of
\* several requests interleave at those awaits.  What a handler holds is in
\* its own locals: `username`, `imap`, `emails`.  The handler modelled is
\* app.get('/emails'): connect, openBox, search, fetch, parse, end, answer.

\* The first Imap object that does not exist yet.
FreeImap ==
  CHOOSE i \in ImapIds :
    /\ imapObjects[i].state = "free"
    /\ \A j \in ImapIds : j < i => imapObjects[j].state # "free"

\* A connection kept in the module and handed to every request: the one
\* that exists, when one does.
createPooledConnection(username) ==
  [id |-> IF \E i \in ImapIds : imapObjects[i].state # "free"
          THEN CHOOSE i \in ImapIds : imapObjects[i].state # "free"
          ELSE FreeImap,
   object |-> [user |-> username, state |-> "new", callers |-> {}]]

\* new Imap({ user: username, password: password, ...ICLOUD_IMAP }): a new
\* object, configured with the credentials passed in.
createImapConnection(username) ==
  [id |-> FreeImap,
   object |-> [user |-> username, state |-> "new", callers |-> {}]]

\* Request r calls an operation of its `imap`, which leaves the object in
\* the given state.
Call(r, state) ==
  imapObjects' = [imapObjects EXCEPT ![rqImap[r]] =
                    [@ EXCEPT !.callers = @ \cup {r}, !.state = state]]

\* The session of request r's `imap` is open.
Usable(r) == imapObjects[rqImap[r]].state = "ready"

\* The handler starts: 400 without credentials, else it creates its Imap
\* object and calls connect().
RqArrive(r) ==
  /\ rqAt[r] = "idle"
  /\ \E username \in Users \cup {""} :
       /\ rqUser' = [rqUser EXCEPT ![r] = username]
       /\ IF username = ""
          THEN /\ rqStatus' = [rqStatus EXCEPT ![r] = 400]
               /\ rqAt' = [rqAt EXCEPT ![r] = "done"]
               /\ UNCHANGED <<rqImap, imapObjects>>
          ELSE LET imap == createImapConnection(username)
               IN  /\ rqImap' = [rqImap EXCEPT ![r] = imap.id]
                   /\ imapObjects' =
                        [imapObjects EXCEPT ![imap.id] =
                           [imap.object EXCEPT !.callers = {r},
                                               !.state = "connecting"]]
                   /\ rqAt' = [rqAt EXCEPT ![r] = "connect"]
                   /\ UNCHANGED rqStatus
  /\ UNCHANGED <<rqEmails, single, pair, stream>>

\* 'ready' on r's object
RqReady(r) ==
  /\ rqAt[r] = "connect"
  /\ imapObjects[rqImap[r]].state = "connecting"
  /\ imapObjects' = [imapObjects EXCEPT ![rqImap[r]].state = "ready"]
  /\ rqAt' = [rqAt EXCEPT ![r] = "openBox"]
  /\ UNCHANGED <<rqUser, rqImap, rqEmails, rqStatus, single, pair, stream>>

\* The handler ends its session and answers with the given status.
RqAnswer(r, status) ==
  /\ Call(r, "ended")
  /\ rqStatus' = [rqStatus EXCEPT ![r] = status]
  /\ rqAt' = [rqAt EXCEPT ![r] = "done"]

\* imapOpenBox resolves.  On an empty folder (box.messages.total === 0) the
\* handler calls imap.end() and answers 200 with no messages; otherwise it
\* calls imap.search.
RqOpened(r) ==
  /\ rqAt[r] = "openBox"
  /\ Usable(r)
  /\ \E total \in {0, 1} :
       IF total = 0
       THEN RqAnswer(r, 200)
       ELSE /\ Call(r, "ready")
            /\ rqAt' = [rqAt EXCEPT ![r] = "search"]
            /\ UNCHANGED rqStatus
  /\ UNCHANGED <<rqUser, rqImap, rqEmails, single, pair, stream>>

\* imapSearch resolves; the handler calls imap.fetch
RqSearched(r) ==
  /\ rqAt[r] = "search"
  /\ Usable(r)
  /\ Call(r, "ready")
  /\ rqAt' = [rqAt EXCEPT ![r] = "fetch"]
  /\ UNCHANGED <<rqUser, rqImap, rqEmails, rqStatus, single, pair, stream>>

\* After the parse loop of GET /emails: sort, imap.end(), and the answer,
\* whose `total: totalMessages` throws a ReferenceError; the catch block
\* calls imap.end() again and answers 500.
RqFinish(r) == RqAnswer(r, 500)

\* imapFetch resolves, with no message or with one message of the mailbox
\* the session is logged in to.  With a message the handler awaits
\* simpleParser; with none the parse loop is over at once.
RqFetched(r) ==
  /\ rqAt[r] = "fetch"
  /\ Usable(r)
  /\ \E n \in {0, 1} :
       IF n = 0
       THEN RqFinish(r)
       ELSE /\ rqAt' = [rqAt EXCEPT ![r] = "parse"]
            /\ UNCHANGED <<rqStatus, imapObjects>>
  /\ UNCHANGED <<rqUser, rqImap, rqEmails, single, pair, stream>>

\* simpleParser settles for the one message: the handler collects it, or
\* logs the parse error and collects nothing; the parse loop is over.
RqParsed(r) ==
  /\ rqAt[r] = "parse"
  /\ \E ok \in BOOLEAN :
       rqEmails' = [rqEmails EXCEPT ![r] =
                      IF ok THEN <<imapObjects[rqImap[r]].user>> ELSE <<>>]
  /\ RqFinish(r)
  /\ UNCHANGED <<rqUser, rqImap, single, pair, stream>>

\* The operation r waits for fails; the catch block calls imap.end() and
\* answers 500.
RqFailed(r) ==
  /\ rqAt[r] \in {"connect", "openBox", "search", "fetch"}
  /\ Call(r, "ended")
  /\ rqStatus' = [rqStatus EXCEPT ![r] = 500]
  /\ rqAt' = [rqAt EXCEPT ![r] = "done"]
  /\ UNCHANGED <<rqUser, rqImap, rqEmails, single, pair, stream>>

\* The handler returns; its locals, and the object only they referred to,
\* are gone.
RqReturn(r) ==
  /\ rqAt[r] = "done"
  /\ rqAt' = [rqAt EXCEPT ![r] = "idle"]
  /\ rqUser' = [rqUser EXCEPT ![r] = ""]
  /\ rqEmails' = [rqEmails EXCEPT ![r] = <<>>]
  /\ rqStatus' = [rqStatus EXCEPT ![r] = 0]
  /\ rqImap' = [rqImap EXCEPT ![r] = 0]
  /\ imapObjects' = IF rqImap[r] = 0 THEN imapObjects
                    ELSE [imapObjects EXCEPT ![rqImap[r]] = NoImap]
  /\ UNCHANGED <<single, pair, stream>>

NextConc ==
  \E r \in Requests :
    \/ RqArrive(r) \/ RqReady(r) \/ RqOpened(r) \/ RqSearched(r)
    \/ RqFetched(r) \/ RqParsed(r) \/ RqFailed(r) \/ RqReturn(r)

SpecConc == Init /\ [][NextConc]_vars

\* --------------------------------------------- imapFetch, event by event
\* One request whose imapFetch is followed through the events of the Imap
\* library: per message 'message', then its body 'data' chunks and its
\* 'attributes' in any order, then its 'end'; the events of different
\* messages interleave freely.  The fetch 'end' comes after every message
\* has ended; a fetch 'error' may come at any time before it, after which
\* the remaining events may still arrive.

\* The messages the server sends: those of the folder whose UID was asked.
Streamed == Range(fetchArg) \cap folder

\* The fetch-level event has fired.
Fired(event) == \E e \in fetchEvents : e.event = event

\* The fetch was issued and its 'end' has not fired.
Live ==
  /\ nFetch = 1
  /\ pc \in {"fetch", "done"}
  /\ ~Fired("end")

\* The sequence number of message m in the folder.
Seqno(m) == Cardinality({u \in folder : u <= m})

\* One `buffer` for the whole fetch: a chunk lands in the buffer of every
\* message that is open.
DataShared(ms, m, chunk) ==
  [k \in DOMAIN ms |->
     IF ms[k].at = "open" THEN [ms[k] EXCEPT !.buffer = Append(@, chunk)]
     ELSE ms[k]]

\* stream.on('data', (chunk) => { buffer += chunk.toString('utf8'); })
\* in the 'message' callback of m: `buffer` is that callback's own.
Data(ms, m, chunk) == [ms EXCEPT ![m].buffer = Append(@, chunk)]

\* A fetch that gives up its messages on 'error': the promise is resolved
\* with what has ended so far.
SettlePartial(event) ==
  IF promise # "pending" THEN "ignored"
  ELSE "resolved"

\* fetch.once('error', (err) => reject(err));
\* fetch.once('end', () => resolve(messages));
\* what the event does to the promise: only a pending promise settles.
Settle(event) ==
  IF promise # "pending" THEN "ignored"
  ELSE IF event = "error" THEN "rejected" ELSE "resolved"

\* fetch.on('message', (msg, seqno) => { let buffer = ''; let attributes =
\* {}; ... })
OnMessage(m) ==
  /\ Live
  /\ m \in Streamed
  /\ msgs[m].at = "none"
  /\ msgs' = [msgs EXCEPT ![m].at = "open"]
  /\ UNCHANGED <<single, pair, conc, messages, promise, fetchEvents, settles>>

\* A body chunk of m arrives.
OnData(m) ==
  /\ Live
  /\ msgs[m].at = "open"
  /\ Len(msgs[m].sent) < MaxChunks
  /\ LET chunk == Chunk(m, Len(msgs[m].sent) + 1)
     IN  msgs' = Data([msgs EXCEPT ![m].sent = Append(@, chunk)], m, chunk)
  /\ UNCHANGED <<single, pair, conc, messages, promise, fetchEvents, settles>>

\* msg.once('attributes', (attrs) => { attributes = attrs; })
OnAttributes(m) ==
  /\ Live
  /\ msgs[m].at = "open"
  /\ msgs[m].attributes = 0
  /\ msgs' = [msgs EXCEPT ![m].attributes = m]
  /\ UNCHANGED <<single, pair, conc, messages, promise, fetchEvents, settles>>

\* msg.once('end', () => { messages.push({ buffer, attributes, seqno }); })
OnEnd(m) ==
  /\ Live
  /\ msgs[m].at = "open"
  /\ msgs[m].attributes # 0
  /\ msgs' = [msgs EXCEPT ![m].at = "ended"]
  /\ messages' = Append(messages, [buffer |-> msgs[m].buffer,
                                   attributes |-> msgs[m].attributes,
                                   seqno |-> Seqno(m)])
  /\ UNCHANGED <<single, pair, conc, promise, fetchEvents, settles>>

\* The fetch-level event fires; when it settles the promise the awaiting
\* handler is resumed: its catch block on a rejection, its next statement
\* with the `messages` array on a resolution.
OnFetchEvent(event) ==
  LET outcome == Settle(event)
  IN  /\ fetchEvents' =
           fetchEvents \cup {[event |-> event, after |-> Len(messages)]}
      /\ UNCHANGED <<msgs, messages>>
      /\ CASE outcome = "ignored" ->
                UNCHANGED <<single, pair, conc, promise, settles>>
           [] outcome = "rejected" ->
                /\ promise' = "rejected"
                /\ settles' = settles + 1
                /\ FetchFailed
           [] outcome = "resolved" ->
                /\ promise' = "resolved"
                /\ settles' = settles + 1
                /\ AfterFetch([i \in 1..Len(messages) |->
                                 messages[i].attributes])

\* 'error' of the fetch
OnFetchError ==
  /\ Live
  /\ ~Fired("error")
  /\ OnFetchEvent("error")

\* 'end' of the fetch
OnFetchEnd ==
  /\ Live
  /\ fetchArg # <<>>
  /\ \A m \in Streamed : msgs[m].at = "ended"
  /\ OnFetchEvent("end")

\* What the parser gives in the fetches followed: a failure or a message.
StreamOutcomes == {ParseFailure, Parsed(1, "Hello", PlainBody)}

\* The requests followed come with credentials, without filters and with
\* the default limit, on folders of at most MaxStreamed messages.
StreamWithin ==
  /\ req'.hasParams /\ req'.hasUser /\ req'.hasPass
  /\ req'.limit \in {0, DefaultLimitSearch}
  /\ req'.uid <= MaxStreamed + 1
  /\ filters' = {}
  /\ folder' \subseteq 1..MaxStreamed
  /\ \A k \in 1..Len(parsedLog') : parsedLog'[k] \in StreamOutcomes

\* A request that fetches arrives.
StreamArrive ==
  /\ \/ GetSearch \/ GetEmail \/ PostMcp
  /\ req'.method \in {"", "search_emails"}
  /\ StreamWithin

\* The steps of the handler before and after its fetch.
StreamStep ==
  /\ \/ ConnectReady \/ OpenBoxReply \/ SearchReply
     \/ ParseEmail \/ ParseNext
  /\ StreamWithin

\* The handler has answered and returns: the promise and the callbacks of
\* its fetch are gone with it.
StreamReturn ==
  /\ pc = "done"
  /\ Reset
  /\ msgs' = [m \in 1..MaxUid |-> NoMessage]
  /\ messages' = <<>>
  /\ promise' = "pending"
  /\ fetchEvents' = {}
  /\ settles' = 0
  /\ UNCHANGED <<process, pair, conc>>

NextFetch ==
  \/ StreamArrive \/ StreamStep
  \/ \E m \in 1..MaxStreamed :
       \/ OnMessage(m) \/ OnData(m) \/ OnAttributes(m) \/ OnEnd(m)
  \/ OnFetchError \/ OnFetchEnd
  \/ StreamReturn

SpecFetch == Init /\ [][NextFetch]_vars

\* ------------------------------------------------ the sort of a long batch
\* GET /search without filters and with the default limit, on a folder of
\* up to MaxBatch messages that all parse: the whole folder is fetched,
\* normalized in the order fetched, and sorted.

\* What the parser gives for the messages of the batch: a date or none.
BatchOutcomes ==
  {Parsed(d, "Hello", PlainBody) : d \in {NoDate} \cup (1..MaxDate)}

BatchWithin ==
  /\ req'.hasUser /\ req'.hasPass
  /\ req'.limit = DefaultLimitSearch
  /\ filters' = {}
  /\ \A k \in 1..Len(parsedLog') : parsedLog'[k] \in BatchOutcomes

BatchArrive ==
  /\ GetSearch
  /\ BatchWithin

\* imapOpenBox resolves with the box of a folder of n messages.
BatchOpenBox ==
  /\ pc = "openBox"
  /\ \E n \in 1..MaxBatch : OpenBox(1..n)

BatchStep ==
  /\ \/ ConnectReady \/ SearchReply \/ FetchReply \/ ParseNext
  /\ BatchWithin

NextBatch ==
  \/ BatchArrive \/ BatchOpenBox \/ BatchStep \/ Return

SpecBatch == Init /\ [][NextBatch]_vars

\* ------------------------------------------------------------------ claims
Answered == pc = "done"
Answer == responses[1]
IsList == Kind \in {"emails", "search", "get_emails", "search_emails"}
MailboxRequest ==
  Kind \in {"mailboxes", "emails", "email", "search", "list_mailboxes",
            "get_emails", "search_emails"}
SendRequest == Kind \in {"send", "send_email"}

\* The last n elements of s.
LastN(s, n) == SubSeq(s, Len(s) - n + 1, Len(s))

\* C1: on every mailbox endpoint, a request that opened a session has
\* closed it by the time its response is sent, on success and on failure.
C1_ClosedBeforeResponse ==
  (MailboxRequest /\ wasReady /\ responses # <<>>)
    => (endCalls >= 1 /\ imapState = "ended")

\* C2: in every list or search whose fetched batch has one or more parse
\* failures, the request succeeds and answers exactly the messages that
\* parsed: fetched count minus failure count of them, all from the batch.
C2_ParseFailuresSkipped ==
  (IsList /\ Answered /\ fetched /\ nFail >= 1)
    => /\ Answer.status = 200
       /\ Len(Answer.emails) = Len(rawMessages) - nFail
       /\ \A i \in 1..Len(Answer.emails) :
            Answer.emails[i].uid \in Range(rawMessages)

\* C3: GET /emails on a non-empty folder whose recency search gives k >= 1
\* identifiers, with limit L >= 1 and no parse failure, answers success
\* with exactly min(L, k) messages, by date descending, each with a
\* non-empty subject.
C3_EmailsAnswersRecent ==
  (Kind = "emails" /\ Answered /\ fetched /\ Len(uids) >= 1
     /\ req.limit >= 1 /\ nFail = 0)
    => /\ Answer.status = 200
       /\ Len(Answer.emails) = Min(req.limit, Len(uids))
       /\ \A i, j \in 1..Len(Answer.emails) :
            i < j => Answer.emails[i].date >= Answer.emails[j].date
       /\ \A i \in 1..Len(Answer.emails) : Answer.emails[i].subject # ""

\* C4: a request that opened a session calls the close operation exactly
\* once on every path: never zero times, never twice.
C4_EndExactlyOnce ==
  (MailboxRequest /\ wasReady /\ Answered) => endCalls = 1

\* C5: every successful list or search response is ordered by date
\* descending, a message without a date counting as earliest (NoDate is
\* below every date), so it comes after every dated message.
C5_DescendingMissingLast ==
  (IsList /\ Answered /\ Answer.status = 200)
    => \A i, j \in 1..Len(Answer.emails) :
         i < j => Answer.emails[i].date >= Answer.emails[j].date

\* C6: for every limit L >= 0 and every search result R, the identifiers
\* selected are the last min(L, |R|) of R in order, so at most L (for the
\* recency intent: whenever R is what is selected from, R not empty).
C6_SelectsLastN ==
  (IsList /\ searched /\ req.limit >= 0 /\ (CriteriaIntent \/ uids # <<>>))
    => /\ selected = LastN(uids, Min(req.limit, Len(uids)))
       /\ Len(selected) <= req.limit

\* C7: recency intent, empty 30-day search, folder of N > 0 messages: the
\* locator gives exactly the positions max(1, N - limit + 1) .. N,
\* ascending, which are min(limit, N) identifiers for a limit >= 0, and
\* those are what is fetched.
C7_FallbackRange ==
  (Recency /\ searched /\ uids = <<>>)
    => /\ boxTotal > 0
       /\ selected = Ascending({x \in 1..boxTotal :
                                  x >= boxTotal - req.limit + 1})
       /\ req.limit >= 0 => Len(selected) = Min(req.limit, boxTotal)
       /\ \A i \in 1..Len(selected) :
            selected[i] = boxTotal - Len(selected) + i
       /\ fetchArg = selected

C7_Witness ==
  /\ Recency /\ searched /\ uids = <<>>
  /\ req.limit = 2 /\ boxTotal = 3
  /\ selected = <<2, 3>>

\* C8: a send request without `to` or without `subject`, through POST /send
\* or /mcp send_email, is answered 400 and starts no outbound submission.
C8_SendValidated ==
  (SendRequest /\ (~req.hasTo \/ ~req.hasSubject))
    => /\ netCalls = 0
       /\ Answered => Answer.status = 400

\* C9: GET /email/:id runs no search and fetches exactly the identifier
\* asked for; when the fetch gives no message the answer is 404 "Email not
\* found", sent after the session was ended.
C9_SingleLookup ==
  Kind = "email"
    => /\ nSearch = 0
       /\ nFetch <= 1
       /\ nFetch = 1 => fetchArg = <<req.uid>>
       /\ (fetched /\ rawMessages = <<>>)
            => /\ responses = <<Response(404, "Email not found", <<>>,
                                         NoTotal)>>
               /\ endCalls = 1
               /\ imapState = "ended"

C9_Witness ==
  /\ Kind = "email" /\ fetched /\ rawMessages = <<>>
  /\ Answered /\ Answer.status = 404 /\ req.uid = 2 /\ folder = {1, 3}

\* C10: a mailbox request without a username or without a password, on the
\* GET endpoints and on every /mcp method, is answered 4xx and no
\* connection is created or attempted for it.
C10_CredentialsRequired ==
  (MailboxRequest /\ (~req.hasUser \/ ~req.hasPass))
    => /\ imapState = "none"
       /\ Answered => Answer.status \in 400..499

\* The messages a failing connect, folder selection, search or fetch hands
\* to the handler's catch block (err.message).
ProviderMessages ==
  {"connect failed", "openBox failed", "search failed", "fetch failed"}

\* C11: the step in which connect, folder selection, search or fetch fails
\* answers the request: one response, HTTP 500, its error the provider's
\* message, no messages and no total; the step issues no search and no
\* fetch (no retry), and from the answered state the handler only returns.
C11_FailureAborts ==
  [][/\ (ConnectError \/ OpenBoxError \/ SearchError \/ FetchError)
        => /\ pc' = "done"
           /\ Len(responses') = 1
           /\ responses'[1].status = 500
           /\ responses'[1].error \in ProviderMessages
           /\ responses'[1].emails = <<>>
           /\ responses'[1].total = NoTotal
           /\ nSearch' = nSearch /\ nFetch' = nFetch
           /\ searchArg' = searchArg /\ fetchArg' = fetchArg
     /\ pc = "done" => (pc' = "idle" /\ nSearch' = 0 /\ nFetch' = 0)]_vars

C11_Witness ==
  /\ Kind = "search" /\ Answered /\ Answer.status = 500
  /\ Answer.error = "fetch failed"
  /\ nSearch = 1 /\ nFetch = 1 /\ searched /\ ~fetched

\* The criterion a filter contributes to the search criteria.
CriterionOf(name) ==
  CASE name = "query" -> "TEXT"
    [] name = "from" -> "FROM"
    [] name = "to" -> "TO"
    [] name = "subject" -> "SUBJECT"
    [] name = "since" -> "SINCE"
    [] name = "before" -> "BEFORE"

\* The search of a criteria-intent request has been issued and is pending:
\* searchArg is the criteria list sent, filters the filters supplied.
CriteriaSent == CriteriaIntent /\ pc = "search"

\* C13: criteria intent, GET /search and /mcp search_emails: with no filter
\* supplied the criteria list is exactly the single match-all criterion,
\* and with any filter supplied the list has no match-all criterion.
C13_AllOnlyWithoutFilters ==
  CriteriaSent
    => /\ filters = {} => searchArg = <<"ALL">>
       /\ filters # {} => "ALL" \notin Range(searchArg)

\* C14: criteria intent, GET /search and /mcp search_emails, every subset
\* of the six filters: the criteria list has exactly one criterion for
\* each supplied filter and none for a filter that was not supplied.
C14_OneCriterionPerFilter ==
  CriteriaSent
    => \A k \in 1..Len(FilterNames) :
         Cardinality({i \in 1..Len(searchArg) :
                        searchArg[i] = CriterionOf(FilterNames[k])})
           = IF FilterNames[k] \in filters THEN 1 ELSE 0

\* The folder at position p of tree T: p[1] indexes the top level, p[2] the
\* children of that folder, and so on.
RECURSIVE NodeAt(_, _)
NodeAt(T, p) ==
  IF Len(p) = 1 THEN T[p[1]] ELSE NodeAt(T[p[1]].children, Tail(p))

\* The positions of all folders of T.
RECURSIVE Positions(_)
Positions(T) ==
  UNION {{<<i>>} \cup {<<i>> \o q : q \in Positions(T[i].children)} :
         i \in 1..Len(T)}

\* p comes before q in depth-first pre-order: p is an ancestor of q, or at
\* the first level where they part p takes the earlier sibling.
Before(p, q) ==
  \/ Len(p) < Len(q) /\ SubSeq(q, 1, Len(p)) = p
  \/ \E k \in 1..Min(Len(p), Len(q)) :
       /\ SubSeq(p, 1, k - 1) = SubSeq(q, 1, k - 1)
       /\ p[k] < q[k]

\* The place of the folder at p in the pre-order listing of T.
Rank(T, p) == 1 + Cardinality({q \in Positions(T) : Before(q, p)})

Parent(p) == SubSeq(p, 1, Len(p) - 1)

\* C12: the flattened list of a folder tree has one entry per folder, the
\* entry of each folder at its place in depth-first pre-order with children
\* in the given order; a top-level folder's path is its name, any other
\* folder's path is its parent's path, then the delimiter, then its name.
C12_FlattenPreOrder ==
  (Kind \in {"mailboxes", "list_mailboxes"} /\ Answered
     /\ Answer.status = 200)
    => /\ Len(mailboxes) = Cardinality(Positions(tree))
       /\ \A p \in Positions(tree) :
            LET entry  == mailboxes[Rank(tree, p)]
                box == NodeAt(tree, p)
            IN  /\ entry.name = box.name
                /\ entry.delimiter = box.delimiter
                /\ entry.path =
                     IF Len(p) = 1 THEN <<box.name>>
                     ELSE mailboxes[Rank(tree, Parent(p))].path
                            \o <<box.delimiter, box.name>>

C12_Witness ==
  /\ Kind = "mailboxes" /\ Answered /\ Answer.status = 200
  /\ Len(tree) = 2 /\ Len(tree[1].children) = 2
  /\ Len(tree[1].children[1].children) = 1
  /\ Len(mailboxes) = 5
  /\ mailboxes[3].path = <<"INBOX", "/", "Work", "/", "Q1">>
  /\ mailboxes[5].path = <<"Archive">>

\* The preview the messages of a list or search are to carry: the first
\* min(PreviewLen, length) characters of the text when there is a non-empty
\* text, else those of the HTML when there is a non-empty HTML, else ''.
ExpectedPreview(parsed) ==
  IF parsed.text.len > 0
  THEN [part |-> "text", len |-> Min(PreviewLen, parsed.text.len)]
  ELSE IF parsed.html.len > 0
  THEN [part |-> "html", len |-> Min(PreviewLen, parsed.html.len)]
  ELSE [part |-> "", len |-> 0]

\* C16: every message of every list or search response (GET /emails,
\* GET /search, /mcp get_emails, /mcp search_emails) carries as preview the
\* first min(200, length) characters of its text when that is present and
\* not empty, otherwise those of its HTML, otherwise the empty string.
C16_PreviewTextThenHtml ==
  (IsList /\ Answered /\ Answer.status = 200)
    => \A i \in 1..Len(Answer.emails) :
         \A k \in 1..Len(parsedLog) :
           rawMessages[k] = Answer.emails[i].uid
             => Answer.emails[i].preview = ExpectedPreview(parsedLog[k])

\* The transport a process is to use given its configuration.
TransportByConfiguration == IF configured THEN "mailgun" ELSE "smtp"

\* C19: the outbound transport is fixed when the process starts by whether
\* the provider's API key and domain are configured, the same for every
\* send of the process: a submission goes through the HTTP delivery
\* provider exactly when they are configured, and otherwise over SMTP with
\* the caller's credentials.
C19_TransportByConfiguration ==
  (SendRequest /\ netCalls >= 1)
    => transport = TransportByConfiguration

\* What request q holds: its locals and the object its `imap` refers to.
Held(q) ==
  <<rqAt[q], rqUser[q], rqImap[q], rqEmails[q], rqStatus[q],
    IF rqImap[q] = 0 THEN NoImap ELSE imapObjects[rqImap[q]]>>

\* C15: under every interleaving of the requests in flight, a request's
\* Imap object is its own (no other request holds it), carries the
\* credentials the request came with, and has had operations called by
\* that request only; the messages a request collected are of its own
\* mailbox; and every step is the step of one request and leaves what
\* every other request holds as it was, its session and its result list
\* included.
C15_OwnSessionOnly ==
  /\ [](\A r \in Requests :
          /\ rqImap[r] # 0 =>
               /\ imapObjects[rqImap[r]].user = rqUser[r]
               /\ imapObjects[rqImap[r]].callers \subseteq {r}
               /\ \A q \in Requests \ {r} : rqImap[q] # rqImap[r]
          /\ \A i \in 1..Len(rqEmails[r]) : rqEmails[r][i] = rqUser[r])
  /\ [][\E r \in Requests :
          \A q \in Requests \ {r} : Held(q)' = Held(q)]_vars

C15_Witness ==
  /\ rqAt[1] = "done" /\ rqStatus[1] = 500 /\ rqUser[1] = "alice"
  /\ rqEmails[1] = <<"alice">>
  /\ imapObjects[rqImap[1]].state = "ended"
  /\ rqAt[2] = "fetch" /\ rqUser[2] = "bob"
  /\ imapObjects[rqImap[2]].state = "ready"
  /\ imapObjects[rqImap[2]].callers = {2}

\* The second of two compared requests has been answered.
BothAnswered(twin) == prev.twin = twin /\ pc = "done"

\* The identifiers of a list of messages, in order.
UidsOf(ems) == [i \in 1..Len(ems) |-> ems[i].uid]

\* C17: for the same parameters and the same mailbox state, a method of
\* POST /mcp gives the outcome of the HTTP endpoint it stands for: success
\* or failure alike, the same mailbox list, the same message identifiers in
\* the same order, the same total.
C17_McpAsEndpoints ==
  BothAnswered("mcp")
    => /\ (Answer.status = 200) = (prev.answer.status = 200)
       /\ mailboxes = prev.mailboxes
       /\ UidsOf(Answer.emails) = UidsOf(prev.answer.emails)
       /\ Answer.total = prev.answer.total

\* C20: every failure response carries a non-empty error string; no
\* response carries the caller's password; and of two requests that differ
\* only in the password and get the same answer at each protocol step, the
\* second is answered exactly as the first.
C20_PasswordNeverAnswered ==
  /\ (Answered /\ Answer.status >= 400)
       => Answer.error # ""
  /\ \A i \in 1..Len(responses) : responses[i].error \notin Passwords
  /\ BothAnswered("password")
       => (responses = prev.responses /\ mailboxes = prev.mailboxes)

C20_Witness ==
  /\ BothAnswered("password")
  /\ password = "password two"
  /\ Kind = "search" /\ nFail = 1
  /\ Answer.status = 200 /\ Len(Answer.emails) = 1

\* The operations of the request that were started and have not settled.
OpsInFlight ==
  (IF imapState = "connecting" /\ responses = <<>> THEN {"connect"} ELSE {})
    \cup (IF pc \in {"openBox", "getBoxes"} THEN {"select"} ELSE {})
    \cup (IF nSearch > (IF searched THEN 1 ELSE 0) /\ responses = <<>>
          THEN {"search"} ELSE {})
    \cup (IF nFetch > (IF fetched THEN 1 ELSE 0) /\ responses = <<>>
          THEN {"fetch"} ELSE {})
    \cup (IF pc = "parse" THEN {"parse"} ELSE {})
    \cup (IF pc = "send" THEN {"send"} ELSE {})

\* The place of a handler position in the order connect, select folder,
\* search, fetch, parse, respond.
StageOf(at) ==
  CASE at = "idle" -> 0
    [] at = "connect" -> 1
    [] at \in {"openBox", "getBoxes"} -> 2
    [] at = "search" -> 3
    [] at = "fetch" -> 4
    [] at = "parse" -> 5
    [] at = "send" -> 5
    [] at = "done" -> 6

\* C21: within a request the handler only moves forward through connect,
\* select folder, search, fetch, parse, respond; a search is issued only
\* by the step in which the folder selection settled, a fetch only by the
\* step in which the search (the selection, for a single lookup) settled,
\* each once; a parse starts only after the fetch has answered and every
\* earlier parse has completed or failed, one message per step; and at no
\* time are two operations of the request in flight.
C21_StrictlySequential ==
  [][/\ pc # "done" =>
          \/ StageOf(pc') > StageOf(pc)
          \/ pc = "parse" /\ pc' = "parse"
     /\ nSearch' > nSearch
          => /\ pc = "openBox" /\ wasReady /\ nSearch = 0 /\ nSearch' = 1
             /\ pc' = "search" /\ nFetch' = 0
     /\ nFetch' > nFetch
          => /\ nFetch = 0 /\ nFetch' = 1 /\ pc' = "fetch" /\ wasReady
             /\ pc = (IF Kind = "email" THEN "openBox" ELSE "search")
             /\ Kind # "email" => searched'
     /\ Len(parsedLog') > Len(parsedLog)
          => /\ pc = "parse" /\ fetched
             /\ Len(parsedLog') = Len(parsedLog) + 1
             /\ Len(parsedLog) = Len(emails) + nFail
             /\ Len(parsedLog') = Len(emails') + nFail'
             /\ Len(parsedLog') <= Len(rawMessages)
     /\ Cardinality(OpsInFlight) <= 1
     /\ Cardinality(OpsInFlight') <= 1]_vars

C21_Witness ==
  /\ Kind = "search" /\ pc = "parse"
  /\ nSearch = 1 /\ nFetch = 1 /\ searched /\ fetched
  /\ Len(rawMessages) = 3 /\ Len(parsedLog) = 2
  /\ nFail = 1 /\ Len(emails) = 1
  /\ OpsInFlight = {"parse"}

\* The message of the folder that an entry of `messages` stands for.
MessageOf(entry) == CHOOSE m \in folder : Seqno(m) = entry.seqno

\* C22: whatever the order of the events, every entry of `messages` is of
\* a message whose own 'end' has fired, no message has two entries and
\* every ended message has one; the entry's buffer is the chunks the server
\* sent for that message, in the order sent, and holds no chunk of another
\* message; the promise is resolved only once the fetch 'end' has fired,
\* and the handler goes on with exactly the entries of `messages`.
C22_MessageAtItsEnd ==
  /\ \A i \in 1..Len(messages) :
       LET m == MessageOf(messages[i])
       IN  /\ \E u \in folder : Seqno(u) = messages[i].seqno
           /\ msgs[m].at = "ended"
           /\ messages[i].attributes = m
           /\ messages[i].buffer = msgs[m].sent
           /\ \A k \in 1..Len(messages[i].buffer) :
                messages[i].buffer[k] = Chunk(m, k)
  /\ \A i, j \in 1..Len(messages) :
       i # j => messages[i].seqno # messages[j].seqno
  /\ Len(messages) = Cardinality({m \in 1..MaxUid : msgs[m].at = "ended"})
  /\ promise = "resolved"
       => /\ Fired("end")
          /\ \A m \in Streamed : msgs[m].at = "ended"
          /\ fetched
          /\ rawMessages = [i \in 1..Len(messages) |-> messages[i].attributes]
  /\ (fetched /\ nFetch = 1 /\ settles > 0) => promise = "resolved"

C22_Witness ==
  /\ promise = "resolved"
  /\ Len(messages) = 2
  /\ messages[1].seqno = 2 /\ messages[2].seqno = 1
  /\ messages[1].buffer = <<Chunk(2, 1), Chunk(2, 2)>>
  /\ messages[2].buffer = <<Chunk(1, 1)>>
  /\ rawMessages = <<2, 1>>

\* C23: once the fetch has signalled 'error', the promise is rejected, the
\* handler was resumed once, and the request is answered 500 with the
\* fetch's error and no message, whatever had ended before the error and
\* whether or not the fetch 'end' follows; a settled promise stays as it
\* is until the handler returns; and a parse failure leaves the fetch
\* resolved with the messages it gave.
C23_FetchErrorFailsWhole ==
  /\ [](/\ settles <= 1
        /\ Fired("error")
             => /\ promise = "rejected" /\ settles = 1
                /\ ~fetched /\ rawMessages = <<>> /\ emails = <<>>
                /\ pc = "done"
                /\ responses = <<Response(500, "fetch failed", <<>>,
                                          NoTotal)>>
        /\ nFail >= 1
             => /\ promise = "resolved" /\ settles = 1 /\ ~Fired("error")
                /\ fetched
                /\ rawMessages = [i \in 1..Len(messages) |->
                                    messages[i].attributes])
  /\ [][promise # "pending"
          => \/ promise' = promise /\ settles' = settles
             \/ pc' = "idle"]_vars

C23_Witness ==
  /\ promise = "rejected" /\ settles = 1
  /\ fetchEvents = {[event |-> "error", after |-> 1],
                    [event |-> "end", after |-> 2]}
  /\ Len(messages) = 2
  /\ Answered /\ Answer.status = 500 /\ Answer.emails = <<>>

\* The UIDs of the messages at the last n sequence positions of the folder.
LastPositions(n) == LastN(Ascending(folder), n)

\* C24: recency intent, empty 30-day search, folder of N > 0 messages with
\* any UIDs: the messages the fetch gives are those at the last
\* min(limit, N) sequence positions of the folder, and a successful answer
\* without parse failure returns exactly those.
C24_FallbackFetchesLastPositions ==
  (Recency /\ searched /\ uids = <<>> /\ boxTotal > 0 /\ fetched)
    => /\ rawMessages = LastPositions(Min(req.limit, boxTotal))
       /\ (Answered /\ Answer.status = 200 /\ nFail = 0)
            => Range(UidsOf(Answer.emails))
                 = Range(LastPositions(Min(req.limit, boxTotal)))

\* The place of the message with the given UID in the fetched batch, which
\* is the order in which the messages were normalized.
PlaceInBatch(uid) == CHOOSE k \in 1..Len(rawMessages) : rawMessages[k] = uid

\* C25: in every successful list or search response, two messages with
\* equal dates, or both without a date, are in the order in which they
\* were fetched and normalized.
C25_StableForEqualDates ==
  (IsList /\ Answered /\ Answer.status = 200)
    => \A i, j \in 1..Len(Answer.emails) :
         (i < j /\ Answer.emails[i].date = Answer.emails[j].date)
           => PlaceInBatch(Answer.emails[i].uid)
                < PlaceInBatch(Answer.emails[j].uid)

\* C26: no fetch is issued with an empty identifier list; a list or search
\* request whose selection is empty issues no fetch and is answered, after
\* the session was ended, with a success that has no messages and total 0,
\* and so is a recency request on an empty folder.
C26_NoEmptyFetch ==
  /\ nFetch >= 1 => fetchArg # <<>>
  /\ (IsList /\ searched /\ selected = <<>>)
       => /\ nFetch = 0
          /\ responses = <<Response(200, "", <<>>, 0)>>
          /\ endCalls = 1 /\ imapState = "ended"
  /\ (Recency /\ wasReady /\ Answered /\ nSearch = 0
        /\ Answer.error # "openBox failed")
       => /\ nFetch = 0
          /\ responses = <<Response(200, "", <<>>, 0)>>
          /\ endCalls = 1 /\ imapState = "ended"

\* C27: a request has at most one response at any time and exactly one
\* once its handler is through; a response that was sent is never followed
\* by another one for the same request, so never a success and then an
\* error.
C27_OneResponse ==
  /\ [](/\ Len(responses) <= 1
        /\ Answered <=> Len(responses) = 1
        /\ Answered => req.endpoint # "none")
  /\ [][responses # <<>>
          => \/ responses' = responses /\ pc' = pc
             \/ responses' = <<>> /\ pc' = "idle"]_vars

C27_Witness ==
  /\ Kind = "emails" /\ Answered /\ fetched
  /\ Len(emails) = 2 /\ endCalls = 2
  /\ responses = <<Response(500, "totalMessages is not defined", <<>>,
                            NoTotal)>>

\* C28: a successful list or search response never returns more messages
\* than the total it reports.
C28_ReturnedWithinTotal ==
  (IsList /\ Answered /\ Answer.status = 200)
    => Len(Answer.emails) <= Answer.total
====
